---- MODULE Spec2Model ----
(***************************************************************************)
(* A model of the batch job engine of app/core.py: JobLauncher.run_job,    *)
(* the task-step retry loop (_run_step), the chunk loop (_run_chunk_step), *)
(* the readers and writers of app/chunk.py, the skip policies of           *)
(* app/skip.py and the four tables of app/models.py.                       *)
(*                                                                         *)
(* The database is the four sequences jobInstances, jobParameters,         *)
(* jobExecutions and stepExecutions: a row's id is its position.  A row is *)
(* in a sequence only once session.commit() has written it.  The objects a *)
(* run_job call holds in memory (its step_execution, its retry_count, the  *)
(* chunk it is working on) are the fields of loc[p] for the worker p that  *)
(* runs the call.  Timestamps are abstracted to "set" / "None".            *)
(***************************************************************************)
EXTENDS Integers, Sequences, FiniteSets, TLC

\* ------------------------------------------------------------------ bounds

\* The number of launch requests one behaviour may submit.
MaxLaunches == 2

\* ------------------------------------------------------- generic helpers

Range(s) == {s[i] : i \in DOMAIN s}

Min(a, b) == IF a <= b THEN a ELSE b

Max0(a) == IF a >= 0 THEN a ELSE 0

\* ------------------------------------------------------------- BatchStatus

STARTING == "STARTING"
STARTED == "STARTED"
STOPPING == "STOPPING"
STOPPED == "STOPPED"
FAILED == "FAILED"
COMPLETED == "COMPLETED"
ABANDONED == "ABANDONED"

BatchStatus == {STARTING, STARTED, STOPPING, STOPPED, FAILED, COMPLETED, ABANDONED}

\* Python's None, for the optional columns.
None == "None"

\* ------------------------------------------------------------ skip policies

\* The exception classes of skip.py and their base class.
ExceptionBase ==
    [Exception |-> None,
     SkippableException |-> "Exception",
     ValidationException |-> "SkippableException",
     ParseException |-> "SkippableException",
     TransformException |-> "SkippableException"]

RECURSIVE IsInstance(_, _)
IsInstance(cls, exc_type) ==
    IF cls = exc_type THEN TRUE
    ELSE IF cls = None THEN FALSE
    ELSE IsInstance(ExceptionBase[cls], exc_type)

NoSkipPolicy == [kind |-> None, skip_limit |-> 0, skippable_exceptions |-> {}]

NeverSkipPolicy == [kind |-> "NeverSkipPolicy", skip_limit |-> 0, skippable_exceptions |-> {}]

AlwaysSkipPolicy == [kind |-> "AlwaysSkipPolicy", skip_limit |-> 0, skippable_exceptions |-> {}]

LimitCheckingSkipPolicy(skip_limit, skippable_exceptions) ==
    [kind |-> "LimitCheckingSkipPolicy",
     skip_limit |-> skip_limit,
     skippable_exceptions |-> IF skippable_exceptions = {} THEN {"Exception"}
                              ELSE skippable_exceptions]

\* SkipPolicy.should_skip, by the class of the policy object.
should_skip(policy, exception, skip_count) ==
    CASE policy.kind = "NeverSkipPolicy" -> FALSE
      [] policy.kind = "AlwaysSkipPolicy" -> TRUE
      [] policy.kind = "LimitCheckingSkipPolicy" ->
            IF skip_count >= policy.skip_limit THEN FALSE
            ELSE \E exc_type \in policy.skippable_exceptions :
                    IsInstance(exception.cls, exc_type)
      [] OTHER -> FALSE

\* --------------------------------------------------------- steps and jobs

\* The readers the registered chunk steps are built over: the list each
\* one reads and whether its class has a reset method (ListItemReader has
\* none, the file readers of examples_chunk.py have one).
ReaderItems ==
    [numbers |-> <<1, 2, 3>>,
     csv |-> <<1, 2, 3>>]

ReaderHasReset ==
    [numbers |-> FALSE,
     csv |-> TRUE]

ReaderNames == DOMAIN ReaderItems

Step(name, task, max_retries) ==
    [name |-> name, is_chunk_step |-> FALSE, max_retries |-> max_retries,
     task |-> task, reader |-> None, has_processor |-> FALSE, has_writer |-> FALSE,
     chunk_size |-> 0, skip_policy |-> NoSkipPolicy]

ChunkStep(name, reader, has_processor, has_writer, chunk_size, max_retries, skip_policy) ==
    [name |-> name, is_chunk_step |-> TRUE, max_retries |-> max_retries,
     task |-> None, reader |-> reader, has_processor |-> has_processor, has_writer |-> has_writer,
     chunk_size |-> chunk_size, skip_policy |-> skip_policy]

\* 0 stands for the None a processor returns to filter an item out (no
\* item and no square of an item is 0).
Filtered == 0

\* jobs.process_number: the square, or None (filtered) when it is odd.
process_number(num) ==
    LET result == num * num
    IN IF result % 2 = 0 THEN result ELSE Filtered

\* processor.process(item): FunctionItemProcessor(process_number), or
\* PassThroughProcessor when the step has no processor.
Process(step, item) ==
    IF step.has_processor THEN process_number(item) ELSE item

\* The registries a process may be started with, one per behaviour.  The
\* jobs have the shapes of those of jobs.py and examples_chunk.py, with
\* other arguments where the constructors take them: FlakyStep retries
\* twice, not 3 times, and comes without the random draw that decides
\* whether it raises; Step1 of FailingJob is given max_retries = -1, which
\* Step.__init__ accepts; ChunkJob reads 3 items in chunks of 2, not 50
\* in chunks of 10, retries once, is given a skip policy and is followed
\* by a task step; DataMigration reads over a reader with a reset method;
\* ZeroChunkJob is ChunkJob's step with chunk_size = 0, which
\* ChunkStep.__init__ stores as it is given.
RetryRegistry ==
    [RetryJob |-> <<Step("Step1", "step1_logic", 0),
                    Step("FlakyStep", "flaky_step_logic", 2),
                    Step("Step2", "step2_logic", 0)>>]

SampleRegistry ==
    [SampleJob |-> <<Step("Step1", "step1_logic", 0), Step("Step2", "step2_logic", 0)>>,
     FailingJob |-> <<Step("Step1", "step1_logic", -1),
                      Step("ErrorStep", "error_step_logic", 0)>>]

ChunkRegistry ==
    [ChunkJob |-> <<ChunkStep("ProcessNumbers", "numbers", TRUE, TRUE, 2, 1,
                              LimitCheckingSkipPolicy(1, {})),
                    Step("Step2", "step2_logic", 0)>>]

MigrationRegistry ==
    [DataMigration |-> <<ChunkStep("MigrateCustomers", "csv", TRUE, TRUE, 2, 1,
                                   NoSkipPolicy)>>]

ZeroChunkRegistry ==
    [ZeroChunkJob |-> <<ChunkStep("ReadNothing", "numbers", TRUE, TRUE, 0, 0,
                                  NoSkipPolicy)>>]

\* A job whose first step is built with a negative max_retries, which
\* Step.__init__ stores as given, followed by a step that succeeds.
NoAttemptRegistry ==
    [NoAttemptJob |-> <<Step("Step1", "step1_logic", -1),
                        Step("Step2", "step2_logic", 0)>>]

Registries ==
    {RetryRegistry, SampleRegistry, ChunkRegistry, MigrationRegistry, ZeroChunkRegistry,
     NoAttemptRegistry}

\* ---------------------------------------------------------------- faults

\* What a call of a task of jobs.py may raise: error_step_logic always
\* raises, flaky_step_logic raises or returns, the others return.
TaskFaults(task) ==
    CASE task = "error_step_logic" -> {[cls |-> "Exception", msg |-> "Something went wrong!"]}
      [] task = "flaky_step_logic" -> {[cls |-> "Exception", msg |-> "Transient error occurred!"]}
      [] OTHER -> {}

TaskMayReturn(task) == task # "error_step_logic"

Tasks == {"step1_logic", "step2_logic", "error_step_logic", "flaky_step_logic"}

AllTaskFaults == UNION {TaskFaults(task) : task \in Tasks}

\* What a processor may raise on an item, and a writer on a batch.
TransformFaults == {[cls |-> "ValidationException", msg |-> "invalid item"]}

WriterFaults == {[cls |-> "Exception", msg |-> "write failed"]}

\* str(e)
StrOfException(e) == e.msg

\* ------------------------------------------------------------ parameters

\* A parameters dict is the sequence of its items in insertion order; a
\* value is an int or a str made of one digit.
IntValue(n) == [t |-> "int", v |-> n]
StrValue(n) == [t |-> "str", v |-> n]
Item(k, val) == [key |-> k, value |-> val]

ParameterChoices ==
    {<<Item("a", IntValue(1)), Item("b", IntValue(2))>>,
     <<Item("b", IntValue(2)), Item("a", IntValue(1))>>,
     <<Item("a", StrValue(1)), Item("b", IntValue(2))>>}

\* The order of Python's str comparison on the keys in use.
KeyOrder == <<"a", "b">>
KeyRank(k) == CHOOSE i \in DOMAIN KeyOrder : KeyOrder[i] = k
KeyLess(k1, k2) == KeyRank(k1) < KeyRank(k2)

\* sorted(parameters.items()): the keys of a dict differ, so the order of
\* the (key, value) tuples is the order of their keys.
RECURSIVE InsertItem(_, _)
InsertItem(sorted, item) ==
    IF sorted = << >> THEN <<item>>
    ELSE IF KeyLess(item.key, Head(sorted).key) THEN <<item>> \o sorted
    ELSE <<Head(sorted)>> \o InsertItem(Tail(sorted), item)

RECURSIVE SortedItems(_)
SortedItems(items) ==
    IF items = << >> THEN << >>
    ELSE InsertItem(SortedItems(Tail(items)), Head(items))

Digits == <<"0", "1", "2", "3", "4", "5", "6", "7", "8", "9">>

\* repr of a value, as the sequence of its characters.
Repr(val) ==
    IF val.t = "str" THEN <<"'", Digits[val.v + 1], "'">>
    ELSE <<Digits[val.v + 1]>>

\* str of a list of (key, value) tuples, as the sequence of its characters.
RECURSIVE StrOfTuples(_)
StrOfTuples(items) ==
    IF items = << >> THEN << >>
    ELSE <<"(", "'", Head(items).key, "'", ",", " ">> \o Repr(Head(items).value) \o <<")">>
         \o (IF Tail(items) = << >> THEN << >> ELSE <<",", " ">>)
         \o StrOfTuples(Tail(items))

StrOfList(items) == <<"[">> \o StrOfTuples(items) \o <<"]">>

\* A job_key that keeps the order the caller listed the parameters in.
JobKeyUnsorted(parameters) == StrOfList(parameters)

\* job_key = str(sorted(parameters.items()))
JobKey(parameters) == StrOfList(SortedItems(parameters))

\* ------------------------------------------------------------------ state

\* The worker threads that run the background tasks of api.launch_job.
Procs == {1, 2}

VARIABLES
    job_registry,     \* jobs.job_registry
    jobInstances,     \* table jobinstance
    jobParameters,    \* table jobparameter
    jobExecutions,    \* table jobexecution
    stepExecutions,   \* table stepexecution
    readerIndex,      \* ListItemReader.index of each reader object
    writes,           \* every call of a writer's write: the batch, and whether it returned
    loc,              \* the locals of each worker's run_job call
    launches,         \* history: the launch requests accepted so far
    notFound          \* history: the job names a request was answered 404 for

vars == <<job_registry, jobInstances, jobParameters, jobExecutions, stepExecutions,
          readerIndex, writes, loc, launches, notFound>>

\* StepExecution(...) as _run_step and _run_chunk_step construct it; the
\* counters they do not pass take the defaults of models.py.
NewStepExecution(job_execution_id, step_name) ==
    [job_execution_id |-> job_execution_id, step_name |-> step_name,
     status |-> STARTED, end_time |-> None,
     exit_code |-> "UNKNOWN", exit_message |-> None, retry_count |-> 0,
     read_count |-> 0, write_count |-> 0, filter_count |-> 0,
     commit_count |-> 0, skip_count |-> 0]

NoStepExecution == [NewStepExecution(0, None) EXCEPT !.status = None]

NoException == [cls |-> None, msg |-> None]

\* A worker that runs no run_job call.  calls, fails, sleeps and
\* entry_index are history, not locals of the code: the calls of the task,
\* the failed attempts and the time.sleep(step.retry_delay) calls of the
\* step being run, and the reader's index when the step was entered.
Idle ==
    [pc |-> "idle", launch |-> 0, job_name |-> None, parameters |-> << >>,
     force |-> FALSE, job_key |-> << >>, instance_id |-> 0,
     completed_steps |-> {}, execution_id |-> 0, idx |-> 0,
     step_execution_id |-> 0, step_execution |-> NoStepExecution,
     retry_count |-> 0, exception |-> NoException,
     chunk |-> << >>, pos |-> 0, processed_chunk |-> << >>,
     calls |-> 0, fails |-> 0, sleeps |-> 0, entry_index |-> 0]

Init ==
    /\ job_registry \in Registries
    /\ jobInstances = << >>
    /\ jobParameters = << >>
    /\ jobExecutions = << >>
    /\ stepExecutions = << >>
    /\ readerIndex = [r \in ReaderNames |-> 0]
    /\ writes = << >>
    /\ loc = [p \in Procs |-> Idle]
    /\ launches = << >>
    /\ notFound = {}

\* The job and the step a worker is at.
JobOf(p) == job_registry[loc[p].job_name]
StepOf(p) == JobOf(p)[loc[p].idx]

\* ------------------------------------------------------------ run_job

\* select(JobInstance).where(job_name == ..., job_key == ...): the ids of
\* the rows that match.
FindInstances(job_name, job_key) ==
    {i \in DOMAIN jobInstances :
        /\ jobInstances[i].job_name = job_name
        /\ jobInstances[i].job_key = job_key}

\* A test that lets every job name through.
IsRegisteredAlways(job_name) == TRUE

\* job_name in job_registry
IsRegistered(job_name) == job_name \in DOMAIN job_registry

\* The job names a request may carry: the registered ones and one that no
\* registry has.
RequestNames == DOMAIN job_registry \cup {"UnknownJob"}

\* api.launch_job for a job name that is not registered: HTTPException(404)
\* is raised to the caller and no background task is added.
LaunchNotFound(job_name) ==
    /\ ~IsRegistered(job_name)
    /\ notFound' = notFound \cup {job_name}
    /\ UNCHANGED <<job_registry, jobInstances, jobParameters, jobExecutions,
                   stepExecutions, readerIndex, writes, loc, launches>>

\* A test that takes every lookup for an empty one.
AlwaysNone(job_instance) == TRUE

\* if not job_instance
IsNone(job_instance) == job_instance = 0

\* api.launch_job for a registered job, and run_job up to the lookup of
\* the instance.  first() has no ORDER BY: it may return any matching row.
\* The history keeps, for each launch, the number of JobInstance rows its
\* lookup saw, the row it created and the completed steps its query saw.
Launch(p, job_name, parameters, force) ==
    /\ loc[p].pc = "idle"
    /\ Len(launches) < MaxLaunches
    /\ IsRegistered(job_name)
    /\ LET job_key == JobKey(parameters)
           found == FindInstances(job_name, job_key)
       IN \E job_instance \in (IF found = {} THEN {0} ELSE found) :
            loc' = [loc EXCEPT ![p] =
                      [Idle EXCEPT !.pc = IF IsNone(job_instance) THEN "create_instance"
                                          ELSE "start_execution",
                                   !.launch = Len(launches) + 1,
                                   !.job_name = job_name,
                                   !.parameters = parameters,
                                   !.force = force,
                                   !.job_key = job_key,
                                   !.instance_id = job_instance]]
    /\ launches' = Append(launches,
                          [job_name |-> job_name, parameters |-> parameters,
                           force |-> force, execution_id |-> 0, invocations |-> 0,
                           seen |-> Len(jobInstances), created |-> 0,
                           completed_steps |-> {}])
    /\ UNCHANGED <<job_registry, notFound, jobInstances, jobParameters, jobExecutions,
                   stepExecutions, readerIndex, writes>>

\* if not job_instance: add, commit, refresh.
CreateInstance(p) ==
    /\ loc[p].pc = "create_instance"
    /\ jobInstances' = Append(jobInstances,
                              [job_name |-> loc[p].job_name, job_key |-> loc[p].job_key])
    /\ loc' = [loc EXCEPT ![p].instance_id = Len(jobInstances) + 1,
                          ![p].pc = "save_parameters"]
    /\ launches' = [launches EXCEPT ![loc[p].launch].created = Len(jobInstances) + 1]
    /\ UNCHANGED <<job_registry, notFound, jobParameters, jobExecutions, stepExecutions,
                   readerIndex, writes>>

\* The column _save_parameters stores a value in, by its type.
ParameterRow(job_instance_id, item) ==
    [job_instance_id |-> job_instance_id, key_name |-> item.key,
     column |-> IF item.value.t = "str" THEN "string_value" ELSE "long_value",
     value |-> item.value.v]

\* _save_parameters: one row per item, in the order of the dict, and one
\* commit after the loop.
SaveParameters(p) ==
    /\ loc[p].pc = "save_parameters"
    /\ jobParameters' = jobParameters \o
            [i \in DOMAIN loc[p].parameters |->
                ParameterRow(loc[p].instance_id, loc[p].parameters[i])]
    /\ loc' = [loc EXCEPT ![p].pc = "start_execution"]
    /\ UNCHANGED <<job_registry, notFound, jobInstances, jobExecutions, stepExecutions,
                   readerIndex, writes, launches>>

\* A query without the filter on the instance: completed steps of any
\* instance count.
CompletedStepsAnyInstance(job_instance_id, force) ==
    IF force THEN {}
    ELSE {stepExecutions[s].step_name : s \in
            {s \in DOMAIN stepExecutions : stepExecutions[s].status = COMPLETED}}

\* A query that is made whether or not force is set.
CompletedStepsIgnoringForce(job_instance_id, force) ==
    {stepExecutions[s].step_name : s \in
        {s \in DOMAIN stepExecutions :
            /\ jobExecutions[stepExecutions[s].job_execution_id].job_instance_id
                  = job_instance_id
            /\ stepExecutions[s].status = COMPLETED}}

\* A query that counts only the steps of the executions that ended.
CompletedStepsOfEndedExecutions(job_instance_id, force) ==
    IF force THEN {}
    ELSE {stepExecutions[s].step_name : s \in
            {s \in DOMAIN stepExecutions :
                /\ jobExecutions[stepExecutions[s].job_execution_id].job_instance_id
                      = job_instance_id
                /\ jobExecutions[stepExecutions[s].job_execution_id].status
                      \in {COMPLETED, FAILED}
                /\ stepExecutions[s].status = COMPLETED}}

\* The names of the steps with a COMPLETED StepExecution in an execution
\* of the instance; empty when force is set.
CompletedSteps(job_instance_id, force) ==
    IF force THEN {}
    ELSE {stepExecutions[s].step_name : s \in
            {s \in DOMAIN stepExecutions :
                /\ jobExecutions[stepExecutions[s].job_execution_id].job_instance_id
                      = job_instance_id
                /\ stepExecutions[s].status = COMPLETED}}

\* The query of the completed steps, then JobExecution(STARTED): add, commit.
StartExecution(p) ==
    /\ loc[p].pc = "start_execution"
    /\ jobExecutions' = Append(jobExecutions,
                               [job_instance_id |-> loc[p].instance_id,
                                status |-> STARTED, end_time |-> None,
                                exit_code |-> "UNKNOWN", exit_message |-> None])
    /\ loc' = [loc EXCEPT ![p].completed_steps =
                                CompletedSteps(loc[p].instance_id, loc[p].force),
                          ![p].execution_id = Len(jobExecutions) + 1,
                          ![p].idx = 1,
                          ![p].pc = "steps"]
    /\ launches' = [launches EXCEPT
                        ![loc[p].launch].execution_id = Len(jobExecutions) + 1,
                        ![loc[p].launch].completed_steps =
                            CompletedSteps(loc[p].instance_id, loc[p].force)]
    /\ UNCHANGED <<job_registry, notFound, jobInstances, jobParameters, stepExecutions,
                   readerIndex, writes>>

\* if step.name in completed_steps: continue
SkipStep(p) ==
    /\ loc[p].pc = "steps"
    /\ loc[p].idx <= Len(JobOf(p))
    /\ StepOf(p).name \in loc[p].completed_steps
    /\ loc' = [loc EXCEPT ![p].idx = @ + 1]
    /\ UNCHANGED <<job_registry, notFound, jobInstances, jobParameters, jobExecutions,
                   stepExecutions, readerIndex, writes, launches>>

\* A loop that allows one attempt more.
ShouldAttemptOnceMore(retry_count, max_retries) == retry_count <= max_retries + 1

\* while retry_count <= step.max_retries
ShouldAttempt(retry_count, max_retries) == retry_count <= max_retries

\* The head of _run_step and of _run_chunk_step: the StepExecution is
\* added and committed, retry_count = 0, and the while loop is entered, or
\* is not when max_retries is negative: the function then returns at once.
EnterStep(p) ==
    /\ loc[p].pc = "steps"
    /\ loc[p].idx <= Len(JobOf(p))
    /\ StepOf(p).name \notin loc[p].completed_steps
    /\ LET step_execution == NewStepExecution(loc[p].execution_id, StepOf(p).name)
           entered == ShouldAttempt(0, StepOf(p).max_retries)
       IN /\ stepExecutions' = Append(stepExecutions, step_execution)
          /\ loc' = [loc EXCEPT ![p].step_execution_id = Len(stepExecutions) + 1,
                                ![p].step_execution = step_execution,
                                ![p].retry_count = 0,
                                ![p].exception = NoException,
                                ![p].chunk = << >>,
                                ![p].pos = 0,
                                ![p].processed_chunk = << >>,
                                ![p].calls = 0,
                                ![p].fails = 0,
                                ![p].sleeps = 0,
                                ![p].entry_index =
                                    IF StepOf(p).is_chunk_step
                                    THEN readerIndex[StepOf(p).reader] ELSE 0,
                                ![p].idx = IF entered THEN @ ELSE @ + 1,
                                ![p].pc = IF ~entered THEN "steps"
                                          ELSE IF StepOf(p).is_chunk_step THEN "chunk_read"
                                          ELSE "task"]
    /\ UNCHANGED <<job_registry, notFound, jobInstances, jobParameters, jobExecutions,
                   readerIndex, writes, launches>>

\* A finally block that leaves end_time as it is.
FinallyKeepsEndTime(job_execution) == job_execution

\* finally: job_execution.end_time = datetime.utcnow(), add, commit.
Finally(job_execution) == [job_execution EXCEPT !.end_time = "set"]

\* The for loop ended: status COMPLETED, and the finally block commits.
CompleteJob(p) ==
    /\ loc[p].pc = "steps"
    /\ loc[p].idx > Len(JobOf(p))
    /\ jobExecutions' = [jobExecutions EXCEPT ![loc[p].execution_id] =
                            Finally([@ EXCEPT !.status = COMPLETED,
                                              !.exit_code = "COMPLETED"])]
    /\ loc' = [loc EXCEPT ![p] = Idle]
    /\ UNCHANGED <<job_registry, notFound, jobInstances, jobParameters, stepExecutions,
                   readerIndex, writes, launches>>

\* except Exception as e: status FAILED, and the finally block commits.
FailJob(p) ==
    /\ loc[p].pc = "job_except"
    /\ jobExecutions' = [jobExecutions EXCEPT ![loc[p].execution_id] =
                            Finally([@ EXCEPT !.status = FAILED,
                                              !.exit_code = "FAILED",
                                              !.exit_message =
                                                  StrOfException(loc[p].exception)])]
    /\ loc' = [loc EXCEPT ![p] = Idle]
    /\ UNCHANGED <<job_registry, notFound, jobInstances, jobParameters, stepExecutions,
                   readerIndex, writes, launches>>

\* ------------------------------------------------------------ _run_step

\* A commit that inserts the object as a row of its own.
PersistAsNewRow(step_execution_id, step_execution) ==
    stepExecutions' = Append(stepExecutions, step_execution)

\* A commit that updates the oldest row of the step's name instead of the
\* row of this execution.
PersistByStepName(step_execution_id, step_execution) ==
    LET same == {s \in DOMAIN stepExecutions :
                    stepExecutions[s].step_name = step_execution.step_name}
        oldest == CHOOSE s \in same : \A t \in same : s <= t
    IN stepExecutions' = [stepExecutions EXCEPT ![oldest] = step_execution]

\* session.add(step_execution); session.commit()
Persist(step_execution_id, step_execution) ==
    stepExecutions' = [stepExecutions EXCEPT ![step_execution_id] = step_execution]

\* The number of attempts made, stored where the number of failed ones is.
AttemptsMade(retry_count) == retry_count + 1

\* step_execution.retry_count = retry_count, on success.
SucceededRetryCount(retry_count) == retry_count

\* The incremented counter, stored as it is.
AttemptsConsumed(retry_count) == retry_count

\* step_execution.retry_count = retry_count - 1, once the retries are
\* exhausted (retry_count was incremented for the failed attempt).
ExhaustedRetryCount(retry_count) == retry_count - 1

CompletedRecord(step_execution, retry_count) ==
    [step_execution EXCEPT !.status = COMPLETED,
                           !.exit_code = "COMPLETED",
                           !.retry_count = SucceededRetryCount(retry_count),
                           !.end_time = "set"]

FailedRecord(step_execution, retry_count, e) ==
    [step_execution EXCEPT !.status = FAILED,
                           !.exit_code = "FAILED",
                           !.exit_message = StrOfException(e),
                           !.retry_count = ExhaustedRetryCount(retry_count),
                           !.end_time = "set"]

Invoked(p, n) == launches' = [launches EXCEPT ![loc[p].launch].invocations = @ + n]

\* step.task() returns: the record is committed COMPLETED and _run_step
\* returns to the for loop.
TaskSucceeds(p) ==
    /\ loc[p].pc = "task"
    /\ ShouldAttempt(loc[p].retry_count, StepOf(p).max_retries)
    /\ TaskMayReturn(StepOf(p).task)
    /\ LET step_execution == CompletedRecord(loc[p].step_execution, loc[p].retry_count)
       IN /\ Persist(loc[p].step_execution_id, step_execution)
          /\ loc' = [loc EXCEPT ![p].step_execution = step_execution,
                                ![p].calls = @ + 1,
                                ![p].idx = @ + 1,
                                ![p].pc = "steps"]
    /\ Invoked(p, 1)
    /\ UNCHANGED <<job_registry, notFound, jobInstances, jobParameters, jobExecutions,
                   readerIndex, writes>>

\* step.task() raises e: retry_count += 1, then either the sleep and the
\* next turn of the loop, or the record is committed FAILED and e is raised
\* to run_job.
TaskFails(p, e) ==
    /\ loc[p].pc = "task"
    /\ ShouldAttempt(loc[p].retry_count, StepOf(p).max_retries)
    /\ e \in TaskFaults(StepOf(p).task)
    /\ LET retry_count == loc[p].retry_count + 1
           step_execution == FailedRecord(loc[p].step_execution, retry_count, e)
       IN IF ShouldAttempt(retry_count, StepOf(p).max_retries)
          THEN /\ loc' = [loc EXCEPT ![p].retry_count = retry_count,
                                     ![p].exception = e,
                                     ![p].calls = @ + 1,
                                     ![p].fails = @ + 1,
                                     ![p].sleeps = @ + 1]
               /\ UNCHANGED stepExecutions
          ELSE /\ Persist(loc[p].step_execution_id, step_execution)
               /\ loc' = [loc EXCEPT ![p].retry_count = retry_count,
                                     ![p].step_execution = step_execution,
                                     ![p].exception = e,
                                     ![p].calls = @ + 1,
                                     ![p].fails = @ + 1,
                                     ![p].pc = "job_except"]
    /\ Invoked(p, 1)
    /\ UNCHANGED <<job_registry, notFound, jobInstances, jobParameters, jobExecutions,
                   readerIndex, writes>>

\* ------------------------------------------------------ _run_chunk_step

\* The for loop over range(chunk_size) of reader.read(): the items read,
\* from the reader's index on, until chunk_size items or the end.
ReadItems(reader, index, chunk_size) ==
    SubSeq(ReaderItems[reader], index + 1,
           Min(index + chunk_size, Len(ReaderItems[reader])))

\* The number of read() calls the for loop makes: one per item, and the
\* one that returns None when the list ends before chunk_size items.
ReadCalls(reader, index, chunk_size) ==
    LET n == Len(ReadItems(reader, index, chunk_size))
    IN IF n < chunk_size THEN n + 1 ELSE n

\* A loop that no chunk ends.
NeverBreak(chunk) == FALSE

\* if not chunk: break
NotChunk(chunk) == chunk = << >>

\* A chunk is read: read_count grows by its length (in memory).
ReadChunk(p) ==
    /\ loc[p].pc = "chunk_read"
    /\ LET step == StepOf(p)
           chunk == ReadItems(step.reader, readerIndex[step.reader], step.chunk_size)
       IN /\ ~NotChunk(chunk)
          /\ readerIndex' = [readerIndex EXCEPT ![step.reader] = @ + Len(chunk)]
          /\ loc' = [loc EXCEPT ![p].step_execution.read_count = @ + Len(chunk),
                                ![p].chunk = chunk,
                                ![p].pos = 1,
                                ![p].processed_chunk = << >>,
                                ![p].pc = "chunk_process"]
          /\ Invoked(p, ReadCalls(step.reader, readerIndex[step.reader], step.chunk_size))
    /\ UNCHANGED <<job_registry, notFound, jobInstances, jobParameters, jobExecutions,
                   stepExecutions, writes>>

\* if not chunk: break, and the step is committed COMPLETED.
FinishChunkStep(p) ==
    /\ loc[p].pc = "chunk_read"
    /\ LET step == StepOf(p)
           chunk == ReadItems(step.reader, readerIndex[step.reader], step.chunk_size)
           step_execution == CompletedRecord(loc[p].step_execution, loc[p].retry_count)
       IN /\ NotChunk(chunk)
          /\ Persist(loc[p].step_execution_id, step_execution)
          /\ loc' = [loc EXCEPT ![p].step_execution = step_execution,
                                ![p].chunk = << >>,
                                ![p].pos = 0,
                                ![p].processed_chunk = << >>,
                                ![p].idx = @ + 1,
                                ![p].pc = "steps"]
          /\ Invoked(p, ReadCalls(step.reader, readerIndex[step.reader], step.chunk_size))
    /\ UNCHANGED <<job_registry, notFound, jobInstances, jobParameters, jobExecutions,
                   readerIndex, writes>>

\* A retry that leaves the reader where it is.
ResetSkipped(reader, index) == index

\* if hasattr(step.reader, 'reset'): step.reader.reset(): the index of
\* the reader after it.
ResetReader(reader, index) == IF ReaderHasReset[reader] THEN 0 ELSE index

\* except Exception as e, in _run_chunk_step: retry_count += 1, then either
\* the sleep, the reader's reset when it has one, and the next attempt, or
\* the record is committed FAILED and e is raised to run_job.  Nothing rolls
\* the session back: the counters the failed attempt changed in memory stay.
\* in_memory is the step_execution object as the failed attempt left it.
ChunkExcept(p, e, in_memory) ==
    LET step == StepOf(p)
        retry_count == loc[p].retry_count + 1
        step_execution == FailedRecord(in_memory, retry_count, e)
    IN IF ShouldAttempt(retry_count, step.max_retries)
       THEN /\ loc' = [loc EXCEPT ![p].retry_count = retry_count,
                                  ![p].step_execution = in_memory,
                                  ![p].exception = e,
                                  ![p].fails = @ + 1,
                                  ![p].sleeps = @ + 1,
                                  ![p].chunk = << >>,
                                  ![p].pos = 0,
                                  ![p].processed_chunk = << >>,
                                  ![p].pc = "chunk_read"]
            /\ readerIndex' = [readerIndex EXCEPT ![step.reader] =
                                                    ResetReader(step.reader, @)]
            /\ UNCHANGED stepExecutions
       ELSE /\ Persist(loc[p].step_execution_id, step_execution)
            /\ loc' = [loc EXCEPT ![p].retry_count = retry_count,
                                  ![p].step_execution = step_execution,
                                  ![p].exception = e,
                                  ![p].fails = @ + 1,
                                  ![p].chunk = << >>,
                                  ![p].pos = 0,
                                  ![p].processed_chunk = << >>,
                                  ![p].pc = "job_except"]
            /\ UNCHANGED readerIndex

\* processor.process(item) returns: the item is kept, or filtered when
\* the processor returned None.
ProcessItem(p) ==
    /\ loc[p].pc = "chunk_process"
    /\ loc[p].pos <= Len(loc[p].chunk)
    /\ LET processed_item == Process(StepOf(p), loc[p].chunk[loc[p].pos])
       IN IF processed_item # Filtered
          THEN loc' = [loc EXCEPT ![p].processed_chunk = Append(@, processed_item),
                                  ![p].pos = @ + 1]
          ELSE loc' = [loc EXCEPT ![p].step_execution.filter_count = @ + 1,
                                  ![p].pos = @ + 1]
    /\ Invoked(p, 1)
    /\ UNCHANGED <<job_registry, notFound, jobInstances, jobParameters, jobExecutions,
                   stepExecutions, readerIndex, writes>>

\* processor.process(item) raises e: the chunk loop consults no skip
\* policy, the exception reaches the except clause of the attempt.
ProcessItemFails(p, e) ==
    /\ loc[p].pc = "chunk_process"
    /\ loc[p].pos <= Len(loc[p].chunk)
    /\ StepOf(p).has_processor
    /\ ChunkExcept(p, e, loc[p].step_execution)
    /\ Invoked(p, 1)
    /\ UNCHANGED <<job_registry, notFound, jobInstances, jobParameters, jobExecutions, writes>>

\* A write of whatever batch the chunk left, empty or not.
ShouldWriteAnyBatch(processed_chunk, has_writer) == has_writer

\* if processed_chunk and step.writer
ShouldWrite(processed_chunk, has_writer) == processed_chunk # << >> /\ has_writer

\* A commit counted only for the chunks that wrote something.
CommitCountIfWritten(commit_count, processed_chunk) ==
    IF processed_chunk = << >> THEN commit_count ELSE commit_count + 1

\* step_execution.commit_count += 1
CommitCount(commit_count, processed_chunk) == commit_count + 1

WriteCall(p, accepted) ==
    [execution_id |-> loc[p].execution_id, step_name |-> StepOf(p).name,
     items |-> loc[p].processed_chunk, accepted |-> accepted]

\* writer.write(processed_chunk) returns: write_count and commit_count
\* grow and the counters are committed.
WriteChunk(p) ==
    /\ loc[p].pc = "chunk_process"
    /\ loc[p].pos > Len(loc[p].chunk)
    /\ ShouldWrite(loc[p].processed_chunk, StepOf(p).has_writer)
    /\ LET step_execution ==
              [loc[p].step_execution EXCEPT
                  !.write_count = @ + Len(loc[p].processed_chunk),
                  !.commit_count = CommitCount(@, loc[p].processed_chunk)]
       IN /\ Persist(loc[p].step_execution_id, step_execution)
          /\ loc' = [loc EXCEPT ![p].step_execution = step_execution,
                                ![p].chunk = << >>,
                                ![p].pos = 0,
                                ![p].processed_chunk = << >>,
                                ![p].pc = "chunk_read"]
    /\ writes' = Append(writes, WriteCall(p, TRUE))
    /\ Invoked(p, 1)
    /\ UNCHANGED <<job_registry, notFound, jobInstances, jobParameters, jobExecutions, readerIndex>>

\* A count that is taken before the write is tried.
CountedBeforeWrite(step_execution, processed_chunk) ==
    [step_execution EXCEPT !.write_count = @ + Len(processed_chunk)]

\* The step_execution object when writer.write has raised: the line
\* write_count += len(processed_chunk) comes after the call and is not
\* reached.
AfterFailedWrite(step_execution, processed_chunk) == step_execution

\* writer.write(processed_chunk) raises e.
WriteChunkFails(p, e) ==
    /\ loc[p].pc = "chunk_process"
    /\ loc[p].pos > Len(loc[p].chunk)
    /\ ShouldWrite(loc[p].processed_chunk, StepOf(p).has_writer)
    /\ ChunkExcept(p, e, AfterFailedWrite(loc[p].step_execution, loc[p].processed_chunk))
    /\ writes' = Append(writes, WriteCall(p, FALSE))
    /\ Invoked(p, 1)
    /\ UNCHANGED <<job_registry, notFound, jobInstances, jobParameters, jobExecutions>>

\* Nothing to write (an empty batch, or no writer): commit_count grows and
\* the counters are committed.
CommitChunk(p) ==
    /\ loc[p].pc = "chunk_process"
    /\ loc[p].pos > Len(loc[p].chunk)
    /\ ~ShouldWrite(loc[p].processed_chunk, StepOf(p).has_writer)
    /\ LET step_execution ==
              [loc[p].step_execution EXCEPT
                  !.commit_count = CommitCount(@, loc[p].processed_chunk)]
       IN /\ Persist(loc[p].step_execution_id, step_execution)
          /\ loc' = [loc EXCEPT ![p].step_execution = step_execution,
                                ![p].chunk = << >>,
                                ![p].pos = 0,
                                ![p].processed_chunk = << >>,
                                ![p].pc = "chunk_read"]
    /\ UNCHANGED <<job_registry, notFound, jobInstances, jobParameters, jobExecutions,
                   readerIndex, writes, launches>>

\* ------------------------------------------------------- specifications

AllIdle == \A q \in Procs : loc[q].pc = "idle"

\* The thread pool gives a background task to its first idle worker.
FirstIdle(p) == \A q \in Procs : loc[q].pc = "idle" => p <= q

\* A launch request is submitted while no run_job call is in progress.
Submit(p) ==
    \E job_name \in RequestNames, parameters \in ParameterChoices,
       force \in BOOLEAN :
        /\ AllIdle
        /\ FirstIdle(p)
        /\ Launch(p, job_name, parameters, force)

\* A request for a job that is not registered, at any time.
Reject == \E job_name \in RequestNames : LaunchNotFound(job_name)

\* A step of run_job or of _run_step in the call of worker p.
RunTasks(p) ==
        \/ CreateInstance(p)
        \/ SaveParameters(p)
        \/ StartExecution(p)
        \/ SkipStep(p)
        \/ EnterStep(p)
        \/ CompleteJob(p)
        \/ FailJob(p)
        \/ TaskSucceeds(p)
        \/ \E e \in AllTaskFaults : TaskFails(p, e)

\* A step of _run_chunk_step in the call of worker p.
RunChunks(p) ==
        \/ ReadChunk(p)
        \/ FinishChunkStep(p)
        \/ ProcessItem(p)
        \/ \E e \in TransformFaults : ProcessItemFails(p, e)
        \/ WriteChunk(p)
        \/ \E e \in WriterFaults : WriteChunkFails(p, e)
        \/ CommitChunk(p)

\* A step of the run_job call of worker p.
Run(p) == RunTasks(p) \/ RunChunks(p)

Next ==
    \/ Reject
    \/ \E p \in Procs : Submit(p) \/ Run(p)

\* Launches one after the other: a request is accepted only when every
\* worker is idle.
Spec == Init /\ [][Next]_vars

\* The parameters of the requests of the specifications below: one
\* listing, so that the launches of a job are launches of one instance.
OneListing == <<Item("a", IntValue(1)), Item("b", StrValue(2))>>

SubmitOne(p) ==
    \E job_name \in DOMAIN job_registry, force \in BOOLEAN :
        /\ AllIdle
        /\ FirstIdle(p)
        /\ Launch(p, job_name, OneListing, force)

NextOne == \E p \in Procs : SubmitOne(p) \/ Run(p)

\* A worker that runs a run_job call goes on running it: the thread of a
\* background task is scheduled again and again until the call returns.
SpecFair == Init /\ [][NextOne]_vars /\ \A p \in Procs : WF_vars(Run(p))

\* A launch request is submitted at any time: the thread pool has a worker
\* for it while one is idle.
SubmitAny(p) ==
    \E job_name \in DOMAIN job_registry, force \in BOOLEAN :
        /\ FirstIdle(p)
        /\ Launch(p, job_name, OneListing, force)

\* The jobs of task steps: their steps share no object in memory.
InitTasks == Init /\ job_registry = SampleRegistry

NextConcurrent == \E p \in Procs : SubmitAny(p) \/ RunTasks(p)

\* Launches that overlap: the run_job calls of the workers interleave
\* between any two commits.
SpecConcurrent == InitTasks /\ [][NextConcurrent]_vars

\* The process dies while run_job calls are in progress: the calls and
\* every object in memory are lost, the readers are built anew at index 0
\* when jobs.py is imported again, and the tables keep the rows that were
\* committed.  Every action ends at a commit or changes memory only, so
\* the states between the actions are the states a crash can leave.
Crash ==
    /\ ~AllIdle
    /\ loc' = [p \in Procs |-> Idle]
    /\ readerIndex' = [r \in ReaderNames |-> 0]
    /\ UNCHANGED <<job_registry, notFound, jobInstances, jobParameters, jobExecutions,
                   stepExecutions, writes, launches>>

NextOrCrash == Crash \/ NextOne

\* The process that dies and is started again serves the jobs of
\* app/jobs.py.
InitJobs == Init /\ job_registry \in {RetryRegistry, SampleRegistry, ChunkRegistry}

\* Launches one after the other, in a process that may die and be started
\* again.
SpecCrash == InitJobs /\ [][NextOrCrash]_vars

\* ------------------------------------------------- what the claims read

IsPrefix(s, t) == Len(s) <= Len(t) /\ SubSeq(t, 1, Len(s)) = s

\* The launch requests whose JobExecution exists.
Started == {l \in DOMAIN launches : launches[l].execution_id # 0}

\* The ids of the StepExecutions of execution e, in the order of creation.
StepIdsOf(e) ==
    LET Of(s) == stepExecutions[s].job_execution_id = e
    IN SelectSeq([s \in DOMAIN stepExecutions |-> s], Of)

\* The step names execution e created a StepExecution for, in order.
StepNamesOf(e) == [i \in DOMAIN StepIdsOf(e) |-> stepExecutions[StepIdsOf(e)[i]].step_name]

\* The declared step names of the job of launch l, in order.
DeclaredNames(l) ==
    [i \in DOMAIN job_registry[launches[l].job_name] |->
        job_registry[launches[l].job_name][i].name]

\* The step names with a COMPLETED StepExecution in an execution of the
\* instance of e that was created before e.
CompletedBefore(e) ==
    {stepExecutions[s].step_name : s \in
        {s \in DOMAIN stepExecutions :
            /\ stepExecutions[s].job_execution_id < e
            /\ jobExecutions[stepExecutions[s].job_execution_id].job_instance_id
                  = jobExecutions[e].job_instance_id
            /\ stepExecutions[s].status = COMPLETED}}

\* The declared steps of launch l that had no COMPLETED StepExecution
\* under the instance when its execution began, in declared order.
StepsToRun(l) ==
    LET Open(name) == name \notin CompletedBefore(launches[l].execution_id)
    IN SelectSeq(DeclaredNames(l), Open)

\* The last StepExecution of a FAILED execution is the FAILED one.
FailedAtLastStep(e) ==
    jobExecutions[e].status = FAILED =>
        /\ StepIdsOf(e) # << >>
        /\ stepExecutions[StepIdsOf(e)[Len(StepIdsOf(e))]].status = FAILED

\* --------------------------------------------------------------- claims

\* C1: a launch without force creates StepExecutions, in declared order,
\* for exactly the declared steps that had no COMPLETED StepExecution
\* under the instance in an earlier execution (all of them when the
\* execution ends COMPLETED, those up to the failing step when it ends
\* FAILED); when every declared step was COMPLETED before, the execution
\* invokes nothing, creates no StepExecution and ends COMPLETED.
C1_ResumeSkipsCompleted ==
    \A l \in Started :
        LET e == launches[l].execution_id
        IN ~launches[l].force =>
            /\ IsPrefix(StepNamesOf(e), StepsToRun(l))
            /\ jobExecutions[e].status = COMPLETED => StepNamesOf(e) = StepsToRun(l)
            /\ FailedAtLastStep(e)
            /\ StepsToRun(l) = << >> =>
                  /\ launches[l].invocations = 0
                  /\ StepNamesOf(e) = << >>
                  /\ jobExecutions[e].status # FAILED

\* C1 witness: a relaunch without force that skipped a step completed by
\* the earlier, failed execution, ran the others and ended COMPLETED.
C1_Witness ==
    \E l \in Started :
        LET e == launches[l].execution_id
        IN /\ ~launches[l].force
           /\ jobExecutions[e].status = COMPLETED
           /\ CompletedBefore(e) # {}
           /\ StepsToRun(l) # << >>
           /\ StepNamesOf(e) = StepsToRun(l)
           /\ Len(StepNamesOf(e)) < Len(DeclaredNames(l))

\* The relaunch of a completed instance: one more JobExecution, COMPLETED,
\* with no StepExecution and no invocation.
C1_RelaunchOfCompleted ==
    \E l \in Started :
        LET e == launches[l].execution_id
        IN /\ ~launches[l].force
           /\ jobExecutions[e].status = COMPLETED
           /\ Range(DeclaredNames(l)) \subseteq CompletedBefore(e)
           /\ StepNamesOf(e) = << >>
           /\ launches[l].invocations = 0

\* C2: a launch with force creates StepExecutions for the declared steps
\* in declared order, whatever was COMPLETED before: for all of them when
\* the execution ends COMPLETED, for those up to the failing step otherwise.
C2_ForceRunsEveryStep ==
    \A l \in Started :
        LET e == launches[l].execution_id
        IN launches[l].force =>
            /\ IsPrefix(StepNamesOf(e), DeclaredNames(l))
            /\ jobExecutions[e].status = COMPLETED => StepNamesOf(e) = DeclaredNames(l)
            /\ FailedAtLastStep(e)

\* C2 witness: a forced relaunch of an instance whose steps were all
\* COMPLETED before has a StepExecution for every declared step.
C2_Witness ==
    \E l \in Started :
        LET e == launches[l].execution_id
        IN /\ launches[l].force
           /\ jobExecutions[e].status = COMPLETED
           /\ Range(DeclaredNames(l)) \subseteq CompletedBefore(e)
           /\ StepNamesOf(e) = DeclaredNames(l)

\* The mapping a parameters dict denotes: the set of its items.
Mapping(parameters) == Range(parameters)

InstanceOf(l) == jobExecutions[launches[l].execution_id].job_instance_id

\* C3: there is at most one JobInstance per (job_name, job_key); two
\* launches resolve to the same JobInstance exactly when they name the same
\* job and their parameter mappings are equal, in whatever order the keys
\* are listed, and the instance carries the job_key both derive.
C3_OneInstancePerKey ==
    /\ \A i, j \in DOMAIN jobInstances :
           (/\ jobInstances[i].job_name = jobInstances[j].job_name
            /\ jobInstances[i].job_key = jobInstances[j].job_key) => i = j
    /\ \A a, b \in Started :
           (InstanceOf(a) = InstanceOf(b)) <=>
               (/\ launches[a].job_name = launches[b].job_name
                /\ Mapping(launches[a].parameters) = Mapping(launches[b].parameters))
    /\ \A a, b \in Started :
           Mapping(launches[a].parameters) = Mapping(launches[b].parameters) =>
               jobInstances[InstanceOf(a)].job_key = jobInstances[InstanceOf(b)].job_key

\* C3 witness: two launches of one job listed the same mapping in
\* different key orders and share the only instance.
C3_Witness ==
    \E a, b \in Started :
        /\ launches[a].parameters # launches[b].parameters
        /\ Mapping(launches[a].parameters) = Mapping(launches[b].parameters)
        /\ InstanceOf(a) = InstanceOf(b)
        /\ Len(jobInstances) = 1

\* The step a worker's step_execution object was created for.
EnteredStep(p) ==
    CHOOSE step \in Range(JobOf(p)) : step.name = loc[p].step_execution.step_name

HasStepExecution(p) == loc[p].pc # "idle" /\ loc[p].step_execution.status # None

\* The committed row of a worker's step_execution object.
Row(p) == stepExecutions[loc[p].step_execution_id]

\* C4: a task step's action is never invoked more than max_retries + 1
\* times; when the step returns after k failed invocations and one that
\* succeeded, the action was invoked k + 1 times with k <= max_retries, and
\* the one StepExecution of the step in this execution is committed
\* COMPLETED with retry_count = k.
C4_RetryThenSuccess ==
    \A p \in Procs :
        (HasStepExecution(p) /\ ~EnteredStep(p).is_chunk_step) =>
            /\ loc[p].calls <= Max0(EnteredStep(p).max_retries + 1)
            /\ loc[p].step_execution.status = COMPLETED =>
                  /\ loc[p].calls = loc[p].fails + 1
                  /\ loc[p].fails <= EnteredStep(p).max_retries
                  /\ Row(p).status = COMPLETED
                  /\ Row(p).retry_count = loc[p].fails
                  /\ Cardinality({s \in Range(StepIdsOf(loc[p].execution_id)) :
                        stepExecutions[s].step_name = EnteredStep(p).name}) = 1

\* C4 witness: a step with max_retries = 2 returned after two failed
\* invocations and a third that succeeded.
C4_Witness ==
    \E p \in Procs :
        /\ HasStepExecution(p)
        /\ ~EnteredStep(p).is_chunk_step
        /\ EnteredStep(p).max_retries = 2
        /\ loc[p].step_execution.status = COMPLETED
        /\ loc[p].fails = 2
        /\ loc[p].calls = 3
        /\ Row(p).retry_count = 2

\* The position of a step name among the declared steps of launch l.
Position(l, name) == CHOOSE i \in DOMAIN DeclaredNames(l) : DeclaredNames(l)[i] = name

LaunchOf(e) == CHOOSE l \in Started : launches[l].execution_id = e

LastStepOf(e) == stepExecutions[StepIdsOf(e)[Len(StepIdsOf(e))]]

\* C5: a step stays in its retry loop only while fewer than
\* max_retries + 1 attempts have failed; once all of them have, its
\* StepExecution is committed FAILED with the last fault's text and the
\* fault is raised to run_job; a FAILED JobExecution carries the text of
\* that last fault, its last StepExecution is the FAILED one, it has no
\* StepExecution for a step declared after it, and no worker runs it on.
C5_ExhaustionFailsJob ==
    /\ \A p \in Procs :
          loc[p].pc \in {"task", "chunk_read", "chunk_process"} =>
              loc[p].fails <= StepOf(p).max_retries
    /\ \A p \in Procs :
          loc[p].pc = "job_except" =>
              /\ loc[p].fails = StepOf(p).max_retries + 1
              /\ Row(p).status = FAILED
              /\ Row(p).exit_message = StrOfException(loc[p].exception)
              /\ loc[p].step_execution_id =
                    StepIdsOf(loc[p].execution_id)[Len(StepIdsOf(loc[p].execution_id))]
    /\ \A e \in DOMAIN jobExecutions :
          jobExecutions[e].status = FAILED =>
              /\ StepIdsOf(e) # << >>
              /\ LastStepOf(e).status = FAILED
              /\ jobExecutions[e].exit_message = LastStepOf(e).exit_message
              /\ jobExecutions[e].exit_message # None
              /\ \A s \in Range(StepIdsOf(e)) :
                    Position(LaunchOf(e), stepExecutions[s].step_name)
                       <= Position(LaunchOf(e), LastStepOf(e).step_name)
              /\ \A p \in Procs : loc[p].execution_id # e

\* C5 witness: an execution FAILED at a step that retried twice, and a
\* step is declared after it.
C5_Witness ==
    \E e \in DOMAIN jobExecutions :
        /\ jobExecutions[e].status = FAILED
        /\ LastStepOf(e).retry_count = 2
        /\ Position(LaunchOf(e), LastStepOf(e).step_name) < Len(DeclaredNames(LaunchOf(e)))
        /\ jobExecutions[e].exit_message = "Transient error occurred!"

\* The declared step a StepExecution row belongs to.
StepOfRow(s) ==
    LET job == job_registry[launches[LaunchOf(stepExecutions[s].job_execution_id)].job_name]
    IN CHOOSE step \in Range(job) : step.name = stepExecutions[s].step_name

\* C6 as claimed: once the retries are exhausted the committed
\* StepExecution is FAILED, carries the last fault's text, and its
\* retry_count is the number of attempts made.
C6_RetryCountIsAttempts ==
    \A p \in Procs :
        loc[p].pc = "job_except" =>
            /\ Row(p).status = FAILED
            /\ Row(p).exit_message = StrOfException(loc[p].exception)
            /\ Row(p).retry_count = loc[p].fails

\* C6 as amended: once the retries are exhausted the committed
\* StepExecution is FAILED, carries the last fault's text, and its
\* retry_count is the number of attempts made minus one, which is the
\* step's max_retries; every FAILED row keeps these values.
C6_RetryCountIsRetries ==
    /\ \A p \in Procs :
          loc[p].pc = "job_except" =>
              /\ Row(p).status = FAILED
              /\ Row(p).exit_message = StrOfException(loc[p].exception)
              /\ Row(p).retry_count = loc[p].fails - 1
    /\ \A s \in DOMAIN stepExecutions :
          stepExecutions[s].status = FAILED =>
              /\ stepExecutions[s].retry_count = StepOfRow(s).max_retries
              /\ stepExecutions[s].exit_message # None

\* C6 witness: a chunk step with max_retries = 1 failed its two attempts.
C6_Witness ==
    \E p \in Procs :
        /\ loc[p].pc = "job_except"
        /\ StepOf(p).is_chunk_step
        /\ loc[p].fails = 2
        /\ Row(p).status = FAILED
        /\ Row(p).retry_count = 1

CeilDiv(n, c) == (n + c - 1) \div c

\* The number of items the reader had left when the step was entered.
ItemsAtEntry(p) == Len(ReaderItems[EnteredStep(p).reader]) - loc[p].entry_index

\* C7: when a chunk step with a writer and chunk_size c > 0 returns from
\* an execution whose first attempt met no fault, over a reader that
\* delivered n items, its StepExecution is committed COMPLETED with
\* read_count = n, commit_count = ceil(n / c), write_count =
\* n - filter_count and retry_count = 0.
C7_CleanChunkRunCounters ==
    \A p \in Procs :
        (/\ HasStepExecution(p)
         /\ EnteredStep(p).is_chunk_step
         /\ EnteredStep(p).has_writer
         /\ EnteredStep(p).chunk_size > 0
         /\ loc[p].step_execution.status = COMPLETED
         /\ loc[p].fails = 0) =>
            /\ Row(p) = loc[p].step_execution
            /\ Row(p).read_count = ItemsAtEntry(p)
            /\ Row(p).commit_count = CeilDiv(ItemsAtEntry(p), EnteredStep(p).chunk_size)
            /\ Row(p).write_count = ItemsAtEntry(p) - Row(p).filter_count
            /\ Row(p).retry_count = 0

\* C7 witness: 3 items in chunks of 2, the second chunk filtered to an
\* empty batch: 3 read, 2 commits, 2 filtered, 1 written.
C7_Witness ==
    \E p \in Procs :
        /\ HasStepExecution(p)
        /\ EnteredStep(p).is_chunk_step
        /\ EnteredStep(p).has_writer
        /\ loc[p].step_execution.status = COMPLETED
        /\ loc[p].fails = 0
        /\ ItemsAtEntry(p) = 3
        /\ Row(p).read_count = 3
        /\ Row(p).commit_count = 2
        /\ Row(p).filter_count = 2
        /\ Row(p).write_count = 1

\* C10: no call of a writer's write, returning or raising, was given an
\* empty batch.
C10_NoEmptyBatch == \A i \in DOMAIN writes : writes[i].items # << >>

\* The write calls made for a worker's step in its execution.
WritesOf(p) ==
    {i \in DOMAIN writes :
        /\ writes[i].execution_id = loc[p].execution_id
        /\ writes[i].step_name = loc[p].step_execution.step_name}

\* C10 witness: a chunk step with a writer returned after two commits, one
\* of a chunk filtered to an empty batch, and one write call.
C10_Witness ==
    \E p \in Procs :
        /\ HasStepExecution(p)
        /\ EnteredStep(p).is_chunk_step
        /\ EnteredStep(p).has_writer
        /\ loc[p].step_execution.status = COMPLETED
        /\ Row(p).commit_count = 2
        /\ Cardinality(WritesOf(p)) = 1

\* C8 as claimed: when the processor raises e on an item and the step's
\* skip policy says should_skip(e, skip_count), skip_count grows by one,
\* the item is dropped from the batch and the attempt goes on with the next
\* item, retry_count unchanged.
C8_SkippableFaultAbsorbed ==
    [][\A p \in Procs, e \in TransformFaults :
          (/\ ProcessItemFails(p, e)
           /\ should_skip(StepOf(p).skip_policy, e, loc[p].step_execution.skip_count)) =>
              /\ loc'[p].step_execution.skip_count = loc[p].step_execution.skip_count + 1
              /\ loc'[p].processed_chunk = loc[p].processed_chunk
              /\ loc'[p].pos = loc[p].pos + 1
              /\ loc'[p].pc = "chunk_process"
              /\ loc'[p].retry_count = loc[p].retry_count]_vars

\* C9 as claimed: under LimitCheckingSkipPolicy(skip_limit = L) the
\* committed skip_count never exceeds L, and a fault of the processor
\* aborts an attempt only when L faults were skipped before it.
C9_LimitedSkip ==
    /\ \A s \in DOMAIN stepExecutions :
          StepOfRow(s).skip_policy.kind = "LimitCheckingSkipPolicy" =>
              stepExecutions[s].skip_count <= StepOfRow(s).skip_policy.skip_limit
    /\ \A p \in Procs :
          (/\ HasStepExecution(p)
           /\ EnteredStep(p).skip_policy.kind = "LimitCheckingSkipPolicy"
           /\ loc[p].fails > 0
           /\ loc[p].exception \in TransformFaults) =>
              loc[p].step_execution.skip_count = EnteredStep(p).skip_policy.skip_limit

\* The rows of the four tables hang together: a JobParameter and a
\* JobExecution belong to a JobInstance row, a StepExecution to a
\* JobExecution row.
RowsBelong ==
    /\ \A i \in DOMAIN jobParameters : jobParameters[i].job_instance_id \in DOMAIN jobInstances
    /\ \A e \in DOMAIN jobExecutions : jobExecutions[e].job_instance_id \in DOMAIN jobInstances
    /\ \A s \in DOMAIN stepExecutions : stepExecutions[s].job_execution_id \in DOMAIN jobExecutions

\* C11: a request that names a job the registry does not have is answered
\* 404 by launch_job itself and starts no run_job call: every accepted
\* launch, every running call and every JobInstance row names a registered
\* job, so no JobInstance, and with it no JobParameter, JobExecution or
\* StepExecution, exists for a name that was answered 404; there are no
\* more JobInstance and JobExecution rows than accepted launches.
C11_UnknownJobRejected ==
    /\ \A name \in notFound :
          /\ name \notin DOMAIN job_registry
          /\ \A i \in DOMAIN jobInstances : jobInstances[i].job_name # name
          /\ \A l \in DOMAIN launches : launches[l].job_name # name
          /\ \A p \in Procs : loc[p].job_name # name
    /\ \A i \in DOMAIN jobInstances : jobInstances[i].job_name \in DOMAIN job_registry
    /\ \A l \in DOMAIN launches : launches[l].job_name \in DOMAIN job_registry
    /\ RowsBelong
    /\ Len(jobInstances) <= Len(launches)
    /\ Len(jobExecutions) <= Len(launches)

\* C11 witness: a request for an unknown job was answered 404 while the
\* tables hold the rows of a launch of a registered job.
C11_Witness ==
    /\ "UnknownJob" \in notFound
    /\ jobExecutions # << >>
    /\ stepExecutions # << >>
    /\ jobParameters # << >>

\* The declared steps of the job of execution e.
StepsOfExecution(e) == Range(job_registry[jobInstances[jobExecutions[e].job_instance_id].job_name])

InvalidChunkStep(step) == step.is_chunk_step /\ step.chunk_size <= 0

\* C12 as claimed: a job with a chunk step whose chunk_size is not
\* positive is refused at submission: no JobExecution and no StepExecution
\* exists for such a job, and no StepExecution of such a step is COMPLETED.
C12_InvalidChunkSizeRejected ==
    /\ \A e \in DOMAIN jobExecutions :
          \A step \in StepsOfExecution(e) : ~InvalidChunkStep(step)
    /\ \A s \in DOMAIN stepExecutions :
          InvalidChunkStep(StepOfRow(s)) => stepExecutions[s].status # COMPLETED

\* Where the run of such a step ends: its StepExecution is COMPLETED with
\* every counter 0, the reader untouched, in a COMPLETED JobExecution.
C12_ZeroChunkCompleted ==
    \E s \in DOMAIN stepExecutions :
        /\ InvalidChunkStep(StepOfRow(s))
        /\ stepExecutions[s].status = COMPLETED
        /\ stepExecutions[s].read_count = 0
        /\ stepExecutions[s].commit_count = 0
        /\ jobExecutions[stepExecutions[s].job_execution_id].status = COMPLETED
        /\ readerIndex[StepOfRow(s).reader] = 0

\* The executions of the instance of e that were created before e.
EarlierExecutions(e) ==
    {e0 \in DOMAIN jobExecutions :
        /\ e0 < e
        /\ jobExecutions[e0].job_instance_id = jobExecutions[e].job_instance_id}

\* An execution a crash left behind: STARTED for ever, no call runs it.
Orphaned(e) ==
    /\ jobExecutions[e].status = STARTED
    /\ \A p \in Procs : loc[p].execution_id # e

\* C13: the rows committed before a crash are there after it: a launch
\* without force creates no StepExecution for a step that has a COMPLETED
\* StepExecution in an earlier execution of the instance, whether that
\* execution ended or was left STARTED by a crash, and the first
\* StepExecution it creates is for the first declared step that has none.
C13_ResumeAfterCrash ==
    \A l \in Started :
        LET e == launches[l].execution_id
        IN ~launches[l].force =>
            /\ \A e0 \in EarlierExecutions(e) : \A s \in Range(StepIdsOf(e0)) :
                  stepExecutions[s].status = COMPLETED =>
                      stepExecutions[s].step_name \notin Range(StepNamesOf(e))
            /\ StepNamesOf(e) # << >> =>
                  /\ StepsToRun(l) # << >>
                  /\ StepNamesOf(e)[1] = StepsToRun(l)[1]
            /\ IsPrefix(StepNamesOf(e), StepsToRun(l))

\* C13 witness: an execution was left STARTED by a crash after its first
\* step was committed COMPLETED; the relaunch without force began at the
\* second step and ended COMPLETED.
C13_Witness ==
    \E l \in Started :
        LET e == launches[l].execution_id
        IN /\ ~launches[l].force
           /\ jobExecutions[e].status = COMPLETED
           /\ \E e0 \in EarlierExecutions(e) :
                 /\ Orphaned(e0)
                 /\ Len(StepIdsOf(e0)) = 1
                 /\ stepExecutions[StepIdsOf(e0)[1]].status = COMPLETED
                 /\ stepExecutions[StepIdsOf(e0)[1]].step_name = DeclaredNames(l)[1]
           /\ Len(DeclaredNames(l)) > 1
           /\ StepNamesOf(e) # << >>
           /\ StepNamesOf(e)[1] = DeclaredNames(l)[2]

\* The JobParameter rows of instance i.
ParametersOf(i) == {r \in Range(jobParameters) : r.job_instance_id = i}

\* Worker p has committed instance i and not yet its parameters.
SavingParameters(p, i) == loc[p].pc = "save_parameters" /\ loc[p].instance_id = i

\* C14 as claimed: in every state of the tables that no call is about to
\* complete, a crash or not having come before, a JobInstance row has the
\* JobParameter rows of the mapping it was created from, all of them.
C14_ParametersWithInstance ==
    \A i \in DOMAIN jobInstances :
        (\A p \in Procs : ~SavingParameters(p, i)) =>
            \E l \in DOMAIN launches :
                /\ launches[l].job_name = jobInstances[i].job_name
                /\ JobKey(launches[l].parameters) = jobInstances[i].job_key
                /\ ParametersOf(i) =
                      {ParameterRow(i, item) : item \in Range(launches[l].parameters)}

\* What a crash between the two commits leaves for good: a relaunch found
\* the instance, ran the job to COMPLETED and the instance still has no
\* JobParameter row.
C14_NeverRepaired ==
    \E e \in DOMAIN jobExecutions :
        /\ jobExecutions[e].status = COMPLETED
        /\ ParametersOf(jobExecutions[e].job_instance_id) = {}

\* How far a status is along STARTING, STARTED, {COMPLETED, FAILED}.
Rank(status) ==
    CASE status = STARTING -> 0
      [] status = STARTED -> 1
      [] status \in {COMPLETED, FAILED} -> 2

TerminalFields(job_execution) ==
    <<job_execution.end_time, job_execution.exit_code, job_execution.exit_message>>

\* C15: in every step, a JobExecution row that is added is STARTING or
\* STARTED with end_time, exit_code and exit_message unwritten; a row that
\* exists stays, its status is never a reserved value and never moves
\* backwards, a COMPLETED or FAILED row does not change at all, and
\* end_time, exit_code and exit_message change only in the one step that
\* takes the row from STARTED to COMPLETED or FAILED, which sets end_time
\* and the exit_code of the status.
C15_JobExecutionLifecycle ==
    [][/\ DOMAIN jobExecutions \subseteq DOMAIN jobExecutions'
       /\ \A e \in DOMAIN jobExecutions' \ DOMAIN jobExecutions :
             /\ jobExecutions'[e].status \in {STARTING, STARTED}
             /\ TerminalFields(jobExecutions'[e]) = <<None, "UNKNOWN", None>>
       /\ \A e \in DOMAIN jobExecutions :
             /\ jobExecutions'[e].status \in {STARTING, STARTED, COMPLETED, FAILED}
             /\ jobExecutions[e].status \in {STARTING, STARTED, COMPLETED, FAILED}
             /\ Rank(jobExecutions[e].status) <= Rank(jobExecutions'[e].status)
             /\ jobExecutions[e].status \in {COMPLETED, FAILED} =>
                   jobExecutions'[e] = jobExecutions[e]
             /\ jobExecutions'[e].job_instance_id = jobExecutions[e].job_instance_id
             /\ (jobExecutions'[e].status \in {COMPLETED, FAILED}) <=>
                   (jobExecutions'[e].end_time # None)
             /\ (jobExecutions'[e].status # jobExecutions[e].status
                   \/ TerminalFields(jobExecutions'[e]) # TerminalFields(jobExecutions[e])) =>
                   /\ jobExecutions[e].status = STARTED
                   /\ TerminalFields(jobExecutions[e]) = <<None, "UNKNOWN", None>>
                   /\ jobExecutions'[e].status \in {COMPLETED, FAILED}
                   /\ jobExecutions'[e].end_time = "set"
                   /\ jobExecutions'[e].exit_code = jobExecutions'[e].status
                   /\ (jobExecutions'[e].exit_message # None) <=>
                         (jobExecutions'[e].status = FAILED)]_vars

\* C15 witness: one JobExecution ended COMPLETED with no exit_message and
\* another FAILED with the fault's text, both with end_time set.
C15_Witness ==
    \E e1, e2 \in DOMAIN jobExecutions :
        /\ jobExecutions[e1] = [job_instance_id |-> jobExecutions[e1].job_instance_id,
                                status |-> COMPLETED, end_time |-> "set",
                                exit_code |-> "COMPLETED", exit_message |-> None]
        /\ jobExecutions[e2].status = FAILED
        /\ jobExecutions[e2].end_time = "set"
        /\ jobExecutions[e2].exit_code = "FAILED"
        /\ jobExecutions[e2].exit_message # None

\* The JobExecution of launch l is committed COMPLETED or FAILED with
\* end_time set.
Ended(l) ==
    /\ launches[l].execution_id # 0
    /\ jobExecutions[launches[l].execution_id].status \in {COMPLETED, FAILED}
    /\ jobExecutions[launches[l].execution_id].end_time = "set"

\* The run_job call of launch l has returned.
Returned(l) == \A p \in Procs : loc[p].launch # l

\* The attempts of the step a worker has entered: the failed ones, and
\* the one that succeeded.
Attempts(p) ==
    loc[p].fails + (IF loc[p].step_execution.status = COMPLETED THEN 1 ELSE 0)

\* C16: every run_job call returns: a step is attempted at most
\* max_retries + 1 times, no chunk that was read empty is processed (the
\* chunk loop ends there), a call that has returned left its JobExecution
\* committed COMPLETED or FAILED with end_time set, and a worker that runs
\* a call is idle again later.
C16_RunJobReturns ==
    /\ [](\A p \in Procs :
            /\ HasStepExecution(p) =>
                  Attempts(p) <= Max0(EnteredStep(p).max_retries + 1)
            /\ loc[p].pc = "chunk_process" => loc[p].chunk # << >>)
    /\ [](\A l \in DOMAIN launches : Returned(l) => Ended(l))
    /\ \A p \in Procs : (loc[p].pc # "idle") ~> (loc[p].pc = "idle")

\* C16 witness: two calls have returned, one that ended COMPLETED and one
\* that ended FAILED at a chunk step after a retry.
C16_Witness ==
    \E l1, l2 \in DOMAIN launches :
        /\ Returned(l1) /\ Ended(l1)
        /\ jobExecutions[launches[l1].execution_id].status = COMPLETED
        /\ Returned(l2) /\ Ended(l2)
        /\ jobExecutions[launches[l2].execution_id].status = FAILED
        /\ LET last == LastStepOf(launches[l2].execution_id)
           IN /\ last.retry_count = 1
              /\ last.read_count > 0

\* The StepExecution rows of execution e for the step called name.
RowsOfStep(e, name) ==
    {s \in DOMAIN stepExecutions :
        /\ stepExecutions[s].job_execution_id = e
        /\ stepExecutions[s].step_name = name}

\* C17: an execution has at most one StepExecution per step, and no more
\* StepExecutions than declared steps; the row of the step a worker has
\* entered is the one created at entry, however many attempts failed
\* since, and once the step has returned or given up that row carries the
\* number of its retries in retry_count.
C17_OneRowPerStep ==
    /\ \A e \in DOMAIN jobExecutions :
          /\ \A name \in Range(StepNamesOf(e)) : Cardinality(RowsOfStep(e, name)) = 1
          /\ Len(StepIdsOf(e)) <= Cardinality(StepsOfExecution(e))
    /\ \A p \in Procs :
          HasStepExecution(p) =>
              /\ RowsOfStep(loc[p].execution_id, EnteredStep(p).name)
                    = {loc[p].step_execution_id}
              /\ Row(p).status = COMPLETED => Row(p).retry_count = loc[p].fails
              /\ Row(p).status = FAILED => Row(p).retry_count = loc[p].fails - 1
              /\ Row(p).status = STARTED => Row(p).retry_count = 0

\* C17 witness: a chunk step that committed chunks, failed an attempt and
\* returned from the second has one row, with retry_count 1.
C17_Witness ==
    \E s \in DOMAIN stepExecutions :
        /\ StepOfRow(s).is_chunk_step
        /\ stepExecutions[s].status = COMPLETED
        /\ stepExecutions[s].retry_count = 1
        /\ stepExecutions[s].commit_count > 1
        /\ RowsOfStep(stepExecutions[s].job_execution_id, stepExecutions[s].step_name) = {s}

SameKey(i, j) ==
    /\ jobInstances[i].job_name = jobInstances[j].job_name
    /\ jobInstances[i].job_key = jobInstances[j].job_key

\* The launches that committed JobInstance row i.
CreatorsOf(i) == {l \in DOMAIN launches : launches[l].created = i}

\* Launches a and b, both without force, each have a COMPLETED
\* StepExecution of the same step in their own execution.
BothCompletedAStep(a, b) ==
    /\ ~launches[a].force
    /\ ~launches[b].force
    /\ \E sa \in Range(StepIdsOf(launches[a].execution_id)),
          sb \in Range(StepIdsOf(launches[b].execution_id)) :
            /\ stepExecutions[sa].step_name = stepExecutions[sb].step_name
            /\ stepExecutions[sa].status = COMPLETED
            /\ stepExecutions[sb].status = COMPLETED

\* C18: the only thing between two launches and a duplicate is the order
\* of their steps: every JobInstance row was committed by one launch, whose
\* lookup had seen no row of that (job_name, job_key); two rows of one
\* (job_name, job_key) exist only when the launch that committed the later
\* one had looked up before the earlier one was committed; and a launch
\* without force runs a step unless its own query saw the step COMPLETED.
\* The witnesses show that both races are reachable.
C18_DuplicatesOnlyByRace ==
    /\ \A i \in DOMAIN jobInstances :
          /\ Cardinality(CreatorsOf(i)) = 1
          /\ \A l \in CreatorsOf(i) :
                /\ launches[l].seen < i
                /\ \A j \in 1..launches[l].seen : ~SameKey(i, j)
    /\ \A i, j \in DOMAIN jobInstances :
          (i < j /\ SameKey(i, j)) => \A l \in CreatorsOf(j) : launches[l].seen < i
    /\ \A l \in Started :
          ~launches[l].force =>
              IsPrefix(StepNamesOf(launches[l].execution_id),
                       LET Open(name) == name \notin launches[l].completed_steps
                       IN SelectSeq(DeclaredNames(l), Open))

\* C18 witness: two launches without force of one job and one mapping
\* committed a JobInstance row each, of the same (job_name, job_key), and
\* each execution has a COMPLETED StepExecution of the same step.
C18_Witness ==
    \E a, b \in Started :
        /\ a # b
        /\ launches[a].job_name = launches[b].job_name
        /\ launches[a].parameters = launches[b].parameters
        /\ InstanceOf(a) # InstanceOf(b)
        /\ SameKey(InstanceOf(a), InstanceOf(b))
        /\ BothCompletedAStep(a, b)

\* The other race: two launches without force of one instance both ran a
\* step to COMPLETED, the query of each having come before the commit of
\* the other.
C18_SameInstanceTwice ==
    \E a, b \in Started :
        /\ a # b
        /\ InstanceOf(a) = InstanceOf(b)
        /\ BothCompletedAStep(a, b)

\* The step of worker p is one in which an attempt of its chunk step fails.
AttemptFails(p) ==
    /\ loc[p].pc = "chunk_process"
    /\ loc'[p].fails = loc[p].fails + 1

\* What the next chunk read would deliver from index.
NextRead(p, index) == ReadItems(StepOf(p).reader, index, StepOf(p).chunk_size)

\* C19: when an attempt of a chunk step fails and attempts remain, the
\* engine sleeps retry_delay once and goes back to reading; a reader with
\* a reset method is then at its first item, which the next read returns,
\* and a reader without one is where the failed attempt left it.  When no
\* attempt remains there is no sleep and the reader is left alone.
C19_RetryResetsReader ==
    [][\A p \in Procs :
          AttemptFails(p) =>
              LET reader == StepOf(p).reader
              IN IF loc'[p].retry_count <= StepOf(p).max_retries
                 THEN /\ loc'[p].pc = "chunk_read"
                      /\ loc'[p].sleeps = loc[p].sleeps + 1
                      /\ IF ReaderHasReset[reader]
                         THEN /\ readerIndex'[reader] = 0
                              /\ Head(NextRead(p, readerIndex'[reader]))
                                    = Head(ReaderItems[reader])
                         ELSE /\ readerIndex'[reader] = readerIndex[reader]
                              /\ NextRead(p, readerIndex'[reader])
                                    = NextRead(p, readerIndex[reader])
                 ELSE /\ loc'[p].pc = "job_except"
                      /\ loc'[p].sleeps = loc[p].sleeps
                      /\ readerIndex' = readerIndex]_vars

\* C19 witness: an attempt over a reader with a reset method failed after
\* it had read the whole list; the engine slept once and the reader is at
\* its first item again for the second attempt.
C19_Witness ==
    \E p \in Procs :
        /\ loc[p].pc = "chunk_read"
        /\ ReaderHasReset[StepOf(p).reader]
        /\ loc[p].fails = 1
        /\ loc[p].sleeps = 1
        /\ loc[p].step_execution.read_count = Len(ReaderItems[StepOf(p).reader])
        /\ readerIndex[StepOf(p).reader] = 0

\* The same failure over a reader without a reset method: the second
\* attempt begins at the end of the list.
C19_ResumesAtCursor ==
    \E p \in Procs :
        /\ loc[p].pc = "chunk_read"
        /\ ~ReaderHasReset[StepOf(p).reader]
        /\ loc[p].fails = 1
        /\ loc[p].sleeps = 1
        /\ readerIndex[StepOf(p).reader] = Len(ReaderItems[StepOf(p).reader])
        /\ NextRead(p, readerIndex[StepOf(p).reader]) = << >>

\* The number of items in the batches the writer accepted for the step of
\* execution e called name, among the first n write calls.
RECURSIVE AcceptedItems(_, _, _)
AcceptedItems(e, name, n) ==
    IF n = 0 THEN 0
    ELSE AcceptedItems(e, name, n - 1)
         + (IF /\ writes[n].execution_id = e
               /\ writes[n].step_name = name
               /\ writes[n].accepted
            THEN Len(writes[n].items) ELSE 0)

\* write_count and commit_count, in the object in memory and in its row.
WriteCounters(p) ==
    <<loc[p].step_execution.write_count, loc[p].step_execution.commit_count,
      Row(p).write_count, Row(p).commit_count>>

\* C20: when the processor raises on an item a fault its step's skip
\* policy would not skip, the attempt is aborted, the writer is not called
\* for the chunk, the batch gathered so far is dropped and write_count and
\* commit_count stay as they were, in memory and in the row; when the
\* writer raises on a batch, the attempt is aborted whatever the skip
\* policy says of the fault, write_count, commit_count and skip_count stay
\* as they were and the batch is on record as refused; write_count is
\* always the number of items in the batches the writer accepted.
C20_SinkAllOrNothing ==
    /\ [](\A p \in Procs :
            (HasStepExecution(p) /\ EnteredStep(p).is_chunk_step) =>
                /\ loc[p].step_execution.write_count =
                      AcceptedItems(loc[p].execution_id, EnteredStep(p).name, Len(writes))
                /\ Row(p).write_count = loc[p].step_execution.write_count)
    /\ [][\A p \in Procs :
            /\ \A e \in TransformFaults :
                  (/\ ProcessItemFails(p, e)
                   /\ ~should_skip(StepOf(p).skip_policy, e,
                                   loc[p].step_execution.skip_count)) =>
                      /\ writes' = writes
                      /\ WriteCounters(p)' = WriteCounters(p)
                      /\ loc'[p].processed_chunk = << >>
                      /\ loc'[p].fails = loc[p].fails + 1
                      /\ loc'[p].pc \in {"chunk_read", "job_except"}
            /\ \A e \in WriterFaults :
                  WriteChunkFails(p, e) =>
                      /\ writes' = Append(writes, WriteCall(p, FALSE))
                      /\ WriteCounters(p)' = WriteCounters(p)
                      /\ loc'[p].step_execution.skip_count = loc[p].step_execution.skip_count
                      /\ loc'[p].processed_chunk = << >>
                      /\ loc'[p].fails = loc[p].fails + 1
                      /\ loc'[p].pc \in {"chunk_read", "job_except"}]_vars

\* C20 witness: a step that has no skip policy gave up after the writer
\* refused a batch in one attempt and the processor raised on an item in
\* the other; the writer was called once and accepted nothing, and
\* write_count and commit_count are 0 in the FAILED row.
C20_Witness ==
    \E p \in Procs :
        /\ loc[p].pc = "job_except"
        /\ StepOf(p).is_chunk_step
        /\ StepOf(p).skip_policy = NoSkipPolicy
        /\ loc[p].fails = 2
        /\ Row(p).status = FAILED
        /\ Row(p).read_count > 0
        /\ Row(p).write_count = 0
        /\ Row(p).commit_count = 0
        /\ Cardinality(WritesOf(p)) = 1
        /\ \A i \in WritesOf(p) : ~writes[i].accepted

\* The batches the writer accepted for the step of execution e called
\* name, among the first n write calls, one after the other.
RECURSIVE AcceptedBatches(_, _, _)
AcceptedBatches(e, name, n) ==
    IF n = 0 THEN << >>
    ELSE AcceptedBatches(e, name, n - 1)
         \o (IF /\ writes[n].execution_id = e
                /\ writes[n].step_name = name
                /\ writes[n].accepted
             THEN writes[n].items ELSE << >>)

\* The outputs of the processor for the items of the step's reader that it
\* does not filter, in the order of the reader.
ExpectedOutput(step) ==
    LET Kept(processed_item) == processed_item # Filtered
    IN SelectSeq([i \in DOMAIN ReaderItems[step.reader] |->
                     Process(step, ReaderItems[step.reader][i])], Kept)

\* Worker p has returned COMPLETED from a chunk step with a writer and a
\* positive chunk_size that it entered with the reader at its first item.
CompletedChunkStepFromStart(p) ==
    /\ HasStepExecution(p)
    /\ EnteredStep(p).is_chunk_step
    /\ EnteredStep(p).has_writer
    /\ EnteredStep(p).chunk_size > 0
    /\ loc[p].entry_index = 0
    /\ loc[p].step_execution.status = COMPLETED

\* C21 as claimed: when a chunk step ends COMPLETED, whatever attempts
\* failed before and whether or not its reader has a reset method, the
\* batches its writer accepted, one after the other, are the processor's
\* outputs for the reader's unfiltered items, in order, each once.
C21_ExactlyOnce ==
    \A p \in Procs :
        CompletedChunkStepFromStart(p) =>
            AcceptedBatches(loc[p].execution_id, EnteredStep(p).name, Len(writes))
                = ExpectedOutput(EnteredStep(p))

\* Over a reader with a reset method: the batch the failed attempt had
\* written is written again by the retry.
C21_WrittenTwice ==
    \E p \in Procs :
        /\ CompletedChunkStepFromStart(p)
        /\ ReaderHasReset[EnteredStep(p).reader]
        /\ AcceptedBatches(loc[p].execution_id, EnteredStep(p).name, Len(writes))
              = ExpectedOutput(EnteredStep(p)) \o ExpectedOutput(EnteredStep(p))

\* Over a reader without one: the items the failed attempt had read are
\* never written, and the step is COMPLETED with nothing written.
C21_Lost ==
    \E p \in Procs :
        /\ CompletedChunkStepFromStart(p)
        /\ ~ReaderHasReset[EnteredStep(p).reader]
        /\ ExpectedOutput(EnteredStep(p)) # << >>
        /\ AcceptedBatches(loc[p].execution_id, EnteredStep(p).name, Len(writes)) = << >>

\* A run without a failed attempt does write each item once.
C21_CleanRunExact ==
    \A p \in Procs :
        (CompletedChunkStepFromStart(p) /\ loc[p].fails = 0) =>
            AcceptedBatches(loc[p].execution_id, EnteredStep(p).name, Len(writes))
                = ExpectedOutput(EnteredStep(p))

\* read_count = write_count + filter_count + skip_count
Balanced(step_execution) ==
    step_execution.read_count =
        step_execution.write_count + step_execution.filter_count
            + step_execution.skip_count

\* C22 as claimed: every committed StepExecution of a chunk step with a
\* writer has read_count = write_count + filter_count + skip_count, after
\* each chunk, after failed attempts and retries, and when it is COMPLETED
\* or FAILED.
C22_CountersBalance ==
    \A s \in DOMAIN stepExecutions :
        (StepOfRow(s).is_chunk_step /\ StepOfRow(s).has_writer) =>
            Balanced(stepExecutions[s])

\* Where the counters part: a step COMPLETED after a retry whose row counts
\* more items read than written and filtered.
C22_CompletedUnbalanced ==
    \E s \in DOMAIN stepExecutions :
        /\ StepOfRow(s).is_chunk_step
        /\ StepOfRow(s).has_writer
        /\ stepExecutions[s].status = COMPLETED
        /\ stepExecutions[s].retry_count > 0
        /\ stepExecutions[s].read_count >
              stepExecutions[s].write_count + stepExecutions[s].filter_count

\* While no attempt of the step has failed, its row is balanced.
C22_CleanRunBalanced ==
    \A p \in Procs :
        (/\ HasStepExecution(p)
         /\ EnteredStep(p).is_chunk_step
         /\ EnteredStep(p).has_writer
         /\ loc[p].fails = 0) => Balanced(Row(p))

\* The StepExecution rows of the instance of JobExecution e that are
\* COMPLETED for the step called name.
CompletedUnderInstance(e, name) ==
    {s \in DOMAIN stepExecutions :
        /\ stepExecutions[s].step_name = name
        /\ stepExecutions[s].status = COMPLETED
        /\ jobExecutions[stepExecutions[s].job_execution_id].job_instance_id =
              jobExecutions[e].job_instance_id}

\* The StepExecution rows that belong to JobExecution e.
RowsOfExecution(e) ==
    {s \in DOMAIN stepExecutions : stepExecutions[s].job_execution_id = e}

\* C23 as claimed: whenever a JobExecution is persisted COMPLETED, whatever
\* max_retries its steps were built with, every declared step of the job has
\* a COMPLETED StepExecution under the instance and no StepExecution of that
\* JobExecution is left STARTED or FAILED.
C23_CompletedMeansAllStepsCompleted ==
    \A e \in DOMAIN jobExecutions :
        jobExecutions[e].status = COMPLETED =>
            /\ \A name \in Range(DeclaredNames(LaunchOf(e))) :
                   CompletedUnderInstance(e, name) # {}
            /\ \A s \in RowsOfExecution(e) :
                   stepExecutions[s].status \notin {STARTED, FAILED}

\* The same for jobs all of whose steps have max_retries >= 0, which holds.
C23_HoldsForNonNegativeRetries ==
    \A e \in DOMAIN jobExecutions :
        (/\ jobExecutions[e].status = COMPLETED
         /\ \A i \in DOMAIN job_registry[launches[LaunchOf(e)].job_name] :
                job_registry[launches[LaunchOf(e)].job_name][i].max_retries >= 0) =>
            /\ \A name \in Range(DeclaredNames(LaunchOf(e))) :
                   CompletedUnderInstance(e, name) # {}
            /\ \A s \in RowsOfExecution(e) :
                   stepExecutions[s].status \notin {STARTED, FAILED}

\* A JobExecution COMPLETED with a step of its own still STARTED.
C23_CompletedWithStartedStep ==
    \E e \in DOMAIN jobExecutions :
        /\ jobExecutions[e].status = COMPLETED
        /\ \E s \in RowsOfExecution(e) : stepExecutions[s].status = STARTED

\* Process p is in a forced launch and has entered a chunk step that an
\* earlier execution of the same instance had COMPLETED.
ForcedRerun(p) ==
    /\ HasStepExecution(p)
    /\ EnteredStep(p).is_chunk_step
    /\ loc[p].force
    /\ EnteredStep(p).name \in CompletedBefore(loc[p].execution_id)

\* C24 as claimed: whichever launch enters a chunk step, the first read of
\* the step returns the first item of the source, and a forced re-run of a
\* COMPLETED chunk step that ends COMPLETED has read_count = n, the number
\* of items of the source.
C24_FirstAttemptReadsFromStart ==
    \A p \in Procs :
        (HasStepExecution(p) /\ EnteredStep(p).is_chunk_step) =>
            /\ loc[p].entry_index = 0
            /\ (ForcedRerun(p) /\ Row(p).status = COMPLETED) =>
                   Row(p).read_count = Len(ReaderItems[EnteredStep(p).reader])

\* The forced re-run of ProcessNumbers over the ListItemReader built once
\* in jobs.py: it enters with the cursor at the end and is committed
\* COMPLETED with read_count = 0.
C24_ForcedRerunReadsNothing ==
    \E p \in Procs :
        /\ ForcedRerun(p)
        /\ EnteredStep(p).reader = "numbers"
        /\ loc[p].entry_index = Len(ReaderItems["numbers"])
        /\ Row(p).status = COMPLETED
        /\ Row(p).read_count = 0

\* In the first execution that uses a reader the step does start at the
\* first item.
C24_FirstUseFromStart ==
    \A p \in Procs :
        (/\ HasStepExecution(p)
         /\ EnteredStep(p).is_chunk_step
         /\ loc[p].execution_id = 1) => loc[p].entry_index = 0

\* The JobExecutions of the run_job calls in progress.
Running == {loc[p].execution_id : p \in Procs} \ {0}

\* The JobInstances created by the run_job calls in progress.
BeingCreated == {launches[loc[p].launch].created : p \in {q \in Procs : loc[q].launch # 0}} \ {0}

\* Every JobExecution is the one of exactly one launch.
OneExecutionPerLaunch ==
    /\ Len(jobExecutions) = Cardinality(Started)
    /\ \A l, m \in Started :
           launches[l].execution_id = launches[m].execution_id => l = m

\* No row is deleted, and the rows of executions other than those of the
\* calls in progress are left as they are.
EarlierRecordsKept ==
    /\ IsPrefix(jobInstances, jobInstances')
    /\ IsPrefix(jobParameters, jobParameters')
    /\ Len(jobExecutions') >= Len(jobExecutions)
    /\ Len(stepExecutions') >= Len(stepExecutions)
    /\ \A e \in DOMAIN jobExecutions :
           e \notin Running => jobExecutions'[e] = jobExecutions[e]
    /\ \A s \in DOMAIN stepExecutions :
           stepExecutions[s].job_execution_id \notin Running =>
               stepExecutions'[s] = stepExecutions[s]

\* What a step of run_job adds: at most one JobExecution, StepExecutions
\* of the JobExecution of the call, a JobInstance only where the lookup
\* found none for the name and key, and parameters only of the JobInstance
\* the call created.
OnlyOwnRecordsAdded ==
    /\ Len(jobExecutions') <= Len(jobExecutions) + 1
    /\ \A s \in DOMAIN stepExecutions' \ DOMAIN stepExecutions :
           stepExecutions'[s].job_execution_id \in Running
    /\ \A i \in DOMAIN jobInstances' \ DOMAIN jobInstances :
           /\ i = Len(jobInstances) + 1
           /\ FindInstances(jobInstances'[i].job_name, jobInstances'[i].job_key) = {}
    /\ \A r \in DOMAIN jobParameters' \ DOMAIN jobParameters :
           jobParameters'[r].job_instance_id \in BeingCreated

\* A step that only passes over a step already COMPLETED writes nothing.
SkipWritesNothing ==
    \A p \in Procs :
        (/\ loc[p].pc = "steps"
         /\ loc[p].idx <= Len(JobOf(p))
         /\ StepOf(p).name \in loc[p].completed_steps) =>
            /\ stepExecutions' = stepExecutions
            /\ jobExecutions' = jobExecutions

\* C25: a run_job call leaves the records of earlier launches as they are:
\* no JobInstance, JobParameter, JobExecution or StepExecution of another
\* execution is modified or deleted, a skipped step writes no row and no
\* counter, and the call adds only one JobExecution, StepExecutions under
\* it and, where the instance did not exist, the JobInstance with its
\* parameters.
C25_EarlierRecordsUntouched ==
    /\ []OneExecutionPerLaunch
    /\ [][EarlierRecordsKept /\ OnlyOwnRecordsAdded /\ SkipWritesNothing]_vars

\* Two executions of one instance have ended, the later one forced: it
\* has a StepExecution of its own for a step the first had COMPLETED, and
\* the row of the first is still COMPLETED.
C25_Witness ==
    /\ AllIdle
    /\ \E e, f \in DOMAIN jobExecutions :
          /\ e < f
          /\ jobExecutions[e].job_instance_id = jobExecutions[f].job_instance_id
          /\ launches[LaunchOf(f)].force
          /\ \E s, t \in DOMAIN stepExecutions :
                /\ stepExecutions[s].job_execution_id = e
                /\ stepExecutions[t].job_execution_id = f
                /\ stepExecutions[s].step_name = stepExecutions[t].step_name
                /\ stepExecutions[s].status = COMPLETED
                /\ stepExecutions[t].status \in {COMPLETED, FAILED}

====
